---- MODULE Spec2Model ----
(***************************************************************************)
(* Inter-agent presence and messaging of MCP-TMUX                          *)
(* (AgentCommunicationManager, agent-communication.ts).                    *)
(*                                                                         *)
(* Every agent process owns one AgentCommunicationManager; all of them     *)
(* share the two directories ~/.mcp-tmux/agents and ~/.mcp-tmux/messages.  *)
(* Times are milliseconds since the epoch of the run.                      *)
(***************************************************************************)
EXTENDS Integers, Sequences, FiniteSets, TLC

(* ------------------------------ bounds --------------------------------- *)

\* number of message UUIDs the run may draw
MaxMsgs == 3
\* the presence scenarios let the clock run this many minutes
MaxMinutes == 6
\* the queue scenarios let the clock run this many hours
MaxHours == 2
\* the delivery scenarios let a2 issue this many sends
MaxSends == 2
\* the history scenarios let the agents draw this many message UUIDs
MaxRecords == 2
\* largest limit passed to getMessageHistory
MaxLimit == 2
\* the heartbeat scenarios let the timer fire this many times
MaxBeats == 11
\* the round-trip scenarios draw this many message UUIDs and let the
\* clock run this many minutes
MaxWrites == 1

(* --------------------------- program constants ------------------------- *)

\* listActiveAgents: "diffMinutes < 5"
StaleMinutes == 5
\* listActiveAgents: 1000 * 60, milliseconds per minute
MsPerMinute == 1000 * 60
\* clearOldMessages: 60 * 60 * 1000, milliseconds per hour
MsPerHour == 60 * 60 * 1000
\* a heartbeat timer that fires only once per staleness interval
HeartbeatPeriodFiveMinutes == StaleMinutes * MsPerMinute
\* main: setInterval(..., 30000), milliseconds between heartbeats
HeartbeatPeriod == 30000

(* ------------------------------ inputs --------------------------------- *)

\* the agent processes (this.agentId of each manager)
Agents == {"a1", "a2"}
\* an identifier no agent holds
Ghost == "ghost"
\* values a caller may pass as targetAgentId
Targets == Agents \cup {Ghost}
\* session names passed to registerAgent; "" is a legal z.string()
Sessions == {"", "s1"}
\* message and command texts
Contents == {"ls"}
\* the value of an omitted optional argument or property
Undefined == [undefined |-> TRUE]
\* sessionInfo as the send_command handler builds it
SessionInfos ==
  {[session |-> "s2"], [session |-> "s2", window |-> "1"],
   [session |-> "s2", pane |-> "%1"]}
\* hours_old values passed to clearOldMessages
HoursOld == {0, 1}
\* the process_commands calls of one agent that may be in flight together
Invocations == {1, 2}
\* the name of a file in the messages directory that no send wrote
ForeignFile == 0
\* messagesDir and agentsDir
Directories == {"messages", "agents"}

(* ------------------------------- state --------------------------------- *)

VARIABLES
  dirs,       \* the directories under ~/.mcp-tmux that exist
  initializing, \* per agent: the mkdir its initializeDirectories() is at
  now,        \* Date.now() / new Date(): the wall clock
  agents,     \* agentsDir: agent id -> parsed content of <id>.json
  messages,   \* messagesDir: message id -> [json, mtime] of <id>.json
  uuids,      \* number of randomUUID() message ids drawn so far
  hb,         \* per agent: record read by an in-flight updateHeartbeat
  running,    \* per agent and call: a processIncomingCommands in flight
  clearing,   \* per agent: a clearOldMessages in flight
  tmuxCalls,  \* sendKeys calls made by the last operation, in order
  ret         \* the step taken last and what it returned

vars ==
  <<dirs, initializing, now, agents, messages, uuids, hb, running,
    clearing, tmuxCalls, ret>>

\* hb value of an agent with no heartbeat in flight
Idle == [idle |-> TRUE]

(* ---------------------- Date and JSON conversions ---------------------- *)

\* Date.prototype.toISOString: the instant as calendar fields
ToISOString(ms) ==
  <<ms \div MsPerHour, (ms % MsPerHour) \div MsPerMinute, ms % MsPerMinute>>

\* new Date(isoString).getTime()
GetTime(iso) == iso[1] * MsPerHour + iso[2] * MsPerMinute + iso[3]

\* a JSON.stringify that also omits the properties holding an empty string
JSONstringifyDropsEmpty(obj) ==
  [k \in {p \in DOMAIN obj : /\ p = "sessionInfo" => obj[p] # Undefined
                             /\ p = "session" => obj[p] # ""}
     |-> obj[k]]

\* JSON.stringify: a property whose value is undefined is omitted
\* (sessionInfo is the only property written with the value undefined)
JSONstringify(obj) ==
  [k \in {p \in DOMAIN obj : p = "sessionInfo" => obj[p] # Undefined}
     |-> obj[k]]

\* a file content JSON.parse rejects: a truncated or foreign file
Garbage == [garbage |-> TRUE]

\* what a JSON.parse that threw its SyntaxError leaves its caller with
Thrown == [thrown |-> "SyntaxError"]

\* the value null, also the file content "null"
Null == [null |-> TRUE]

\* the value {}, also the file content "{}"
EmptyObject == [k \in {} |-> TRUE]

\* JSON.parse: the value a text denotes; a text that is no JSON throws
JSONparse(text) == IF text = Garbage THEN Thrown ELSE text

\* obj.k = v on an object
Assign(obj, k, v) ==
  [p \in DOMAIN obj \cup {k} |-> IF p = k THEN v ELSE obj[p]]

\* obj.k used as a condition: present and not the empty string
Truthy(obj, k) == k \in DOMAIN obj /\ obj[k] # ""

(* --------------------------- Presence Registry ------------------------- *)

\* a registerAgent that sweeps the records that are five minutes old
registerAgentSweeps(a, sessionName, writeOk) ==
  LET agentInfo == [id |-> a, name |-> a, session |-> sessionName,
                    lastSeen |-> ToISOString(now), status |-> "online"]
      fresh == {f \in DOMAIN agents :
                  now - GetTime(agents[f].lastSeen)
                    < StaleMinutes * MsPerMinute}
  IN /\ agents' = IF writeOk
                    THEN [f \in fresh \cup {a} |->
                            IF f = a THEN JSONstringify(agentInfo)
                                     ELSE agents[f]]
                    ELSE agents
     /\ ret' = [op |-> "registerAgent", by |-> a,
                out |-> IF writeOk THEN "registered" ELSE "threw",
                wrote |-> IF writeOk THEN agentInfo ELSE Null]
     /\ tmuxCalls' = <<>>
     /\ UNCHANGED <<clearing, dirs, initializing, running, now, messages, uuids, hb>>

\* registerAgent(sessionName)
registerAgent(a, sessionName, writeOk) ==
  LET agentInfo == [id |-> a, name |-> a, session |-> sessionName,
                    lastSeen |-> ToISOString(now), status |-> "online"]
  IN /\ agents' = IF writeOk
                    THEN [f \in DOMAIN agents \cup {a} |->
                            IF f = a THEN JSONstringify(agentInfo)
                                     ELSE agents[f]]
                    ELSE agents
     /\ ret' = [op |-> "registerAgent", by |-> a,
                out |-> IF writeOk THEN "registered" ELSE "threw",
                wrote |-> IF writeOk THEN agentInfo ELSE Null]
     /\ tmuxCalls' = <<>>
     /\ UNCHANGED <<clearing, dirs, initializing, running, now, messages, uuids, hb>>

\* an unlink that reports success and leaves the file in place
UnlinkAgentKeeps(dir, a) == dir

\* the agents directory after unlink(<a>.json) succeeded
UnlinkAgent(dir, a) == [f \in DOMAIN dir \ {a} |-> dir[f]]

\* an unregisterAgent without its try/catch: the rejection of unlink
\* reaches the caller
unregisterAgentUncaught(a) ==
  /\ agents' = IF a \in DOMAIN agents THEN UnlinkAgent(agents, a) ELSE agents
  /\ ret' = [op |-> "unregisterAgent", by |-> a,
             out |-> IF a \in DOMAIN agents THEN "unregistered"
                                            ELSE "threw"]
  /\ tmuxCalls' = <<>>
  /\ UNCHANGED <<clearing, dirs, initializing, running, now, messages, uuids, hb>>

\* unregisterAgent()
unregisterAgent(a) ==
  /\ agents' = IF a \in DOMAIN agents THEN UnlinkAgent(agents, a) ELSE agents
  /\ ret' = [op |-> "unregisterAgent", by |-> a,
             out |-> IF a \in DOMAIN agents THEN "unregistered"
                                            ELSE "failed"]
  /\ tmuxCalls' = <<>>
  /\ UNCHANGED <<clearing, dirs, initializing, running, now, messages, uuids, hb>>

\* a staleness test that still counts the fifth minute as fresh
StatusOfInclusive(agent, nowMs) ==
  IF /\ "lastSeen" \in DOMAIN agent
     /\ nowMs - GetTime(agent.lastSeen) <= StaleMinutes * MsPerMinute
    THEN "online" ELSE "offline"

\* the status listActiveAgents computes for a record
StatusOf(agent, nowMs) ==
  \* diffMinutes = (now - lastSeen) / (1000 * 60); diffMinutes < 5;
  \* without a lastSeen the date is invalid, diffMinutes is NaN and the
  \* comparison is false
  IF /\ "lastSeen" \in DOMAIN agent
     /\ nowMs - GetTime(agent.lastSeen) < StaleMinutes * MsPerMinute
    THEN "online" ELSE "offline"

\* listActiveAgents() over a directory enumeration `files`
RECURSIVE listActiveAgents(_, _, _)
listActiveAgents(dir, files, nowMs) ==
  IF files = <<>> THEN <<>>
  ELSE LET agent == JSONparse(dir[Head(files)])
           rest == listActiveAgents(dir, Tail(files), nowMs)
       IN \* JSON.parse threw, or agent.lastSeen threw on null: the
          \* inner catch ignores the file
          IF agent = Thrown \/ agent = Null THEN rest
          ELSE <<Assign(agent, "status", StatusOf(agent, nowMs))>> \o rest

\* getAgentInfo(agentId): the parsed content, or null when readFile or
\* JSON.parse threw
getAgentInfo(dir, agentId) ==
  IF agentId \in DOMAIN dir /\ JSONparse(dir[agentId]) # Thrown
    THEN JSONparse(dir[agentId]) ELSE Null

\* updateHeartbeat() up to the completion of its readFile
heartbeatRead(a) ==
  /\ hb[a] = Idle
  /\ a \in DOMAIN agents
  /\ JSONparse(agents[a]) \notin {Thrown, Null}
  /\ hb' = [hb EXCEPT ![a] = JSONparse(agents[a])]
  /\ ret' = [op |-> "updateHeartbeat", by |-> a, out |-> "read"]
  /\ tmuxCalls' = <<>>
  /\ UNCHANGED <<clearing, dirs, initializing, running, now, agents, messages, uuids>>

\* an updateHeartbeat() whose catch block registers the agent again
heartbeatCaughtReregisters(a) ==
  /\ hb[a] = Idle
  /\ IF a \in DOMAIN agents THEN JSONparse(agents[a]) \in {Thrown, Null}
                             ELSE TRUE
  /\ agents' = [f \in DOMAIN agents \cup {a} |->
                  IF f = a
                    THEN JSONstringify([id |-> a, name |-> a, session |-> "",
                                        lastSeen |-> ToISOString(now),
                                        status |-> "online"])
                    ELSE agents[f]]
  /\ ret' = [op |-> "updateHeartbeat", by |-> a, out |-> "ignored"]
  /\ tmuxCalls' = <<>>
  /\ UNCHANGED <<clearing, dirs, initializing, running, now, messages, uuids, hb>>

\* updateHeartbeat() when readFile rejects (no file), JSON.parse throws or
\* the content is null: the catch block does nothing and the call returns
heartbeatCaught(a) ==
  /\ hb[a] = Idle
  /\ IF a \in DOMAIN agents THEN JSONparse(agents[a]) \in {Thrown, Null}
                             ELSE TRUE
  /\ ret' = [op |-> "updateHeartbeat", by |-> a, out |-> "ignored"]
  /\ tmuxCalls' = <<>>
  /\ UNCHANGED <<clearing, dirs, initializing, running, now, agents, messages, uuids, hb>>

\* updateHeartbeat() from the parsed record to the completion of writeFile
heartbeatWrite(a) ==
  /\ hb[a] # Idle
  /\ LET agentInfo == Assign(Assign(hb[a], "lastSeen", ToISOString(now)),
                             "status", "online")
     IN agents' = [f \in DOMAIN agents \cup {a} |->
                     IF f = a THEN JSONstringify(agentInfo) ELSE agents[f]]
  /\ hb' = [hb EXCEPT ![a] = Idle]
  /\ ret' = [op |-> "updateHeartbeat", by |-> a, out |-> "written",
             wrote |-> Assign(Assign(hb[a], "lastSeen", ToISOString(now)),
                              "status", "online")]
  /\ tmuxCalls' = <<>>
  /\ UNCHANGED <<clearing, dirs, initializing, running, now, messages, uuids>>

(* ----------------------------- Message Queue --------------------------- *)

\* the orders in which a set of names can be enumerated
RECURSIVE Orders(_)
Orders(names) ==
  IF names = {} THEN {<<>>}
  ELSE UNION {{<<f>> \o rest : rest \in Orders(names \ {f})} : f \in names}

\* readdir: the names of a directory, in any order
Readdir(dir) == Orders(DOMAIN dir)

\* a randomUUID that returns the identifier it returned last
randomUUIDRepeats(drawn) == IF drawn = 0 THEN drawn + 1 ELSE drawn

\* randomUUID() for a message id, after `drawn` earlier calls: an
\* identifier none of them returned; the n-th call returns n
randomUUID(drawn) == drawn + 1

\* a writeFile that resolves without the file reaching the directory
WriteMessageLost(dir, id, text, nowMs) == dir

\* writeFile(<id>.json, text) into the messages directory at time nowMs
WriteMessage(dir, id, text, nowMs) ==
  [f \in DOMAIN dir \cup {id} |->
     IF f = id THEN [json |-> text, mtime |-> nowMs] ELSE dir[f]]

\* unlink(<id>.json) in the messages directory
UnlinkMessage(dir, id) == [f \in DOMAIN dir \ {id} |-> dir[f]]

\* one tmux.sendKeys(target, keys, enter) call, whether it returned, and
\* the milliseconds its caller had waited since its previous call
SendKeys(target, keys, enter, ok, waited) ==
  [target |-> target, keys |-> keys, enter |-> enter, ok |-> ok,
   waited |-> waited]

\* setTimeout(resolve, 500): the wait between the text and Enter
SettleDelay == 500

\* a delivery that presses Enter whether or not the text was sent
DeliverEnterRegardless(target, text, keys1Ok, keys2Ok) ==
  <<SendKeys(target, text, FALSE, keys1Ok, 0),
    SendKeys(target, "", TRUE, keys2Ok, SettleDelay)>>

\* the two-step injection into `target`: text, 500ms, Enter alone; a
\* sendKeys that throws ends it in the catch block
Deliver(target, text, keys1Ok, keys2Ok) ==
  IF keys1Ok
    THEN <<SendKeys(target, text, FALSE, TRUE, 0),
           SendKeys(target, "", TRUE, keys2Ok, SettleDelay)>>
    ELSE <<SendKeys(target, text, FALSE, FALSE, 0)>>

\* whether every call of a delivery returned
Delivered(calls) == \A i \in DOMAIN calls : calls[i].ok

\* a sendMessage that injects into the terminal before it writes the file
sendMessageOnDeliverFirst(dir, reg, drawn, nowMs, a, targetAgentId, content, type, writeOk, keys1Ok, keys2Ok) ==
  LET id == randomUUID(drawn)
      message == [id |-> id, from |-> a, to |-> targetAgentId,
                  type |-> type, content |-> content,
                  timestamp |-> ToISOString(nowMs)]
      written == WriteMessage(dir, id, JSONstringify(message), nowMs)
      targetAgent == getAgentInfo(reg, targetAgentId)
      found == type = "message" /\ targetAgent # Null
                                /\ Truthy(targetAgent, "session")
      calls == IF found THEN Deliver(targetAgent.session \o ":0", content,
                                     keys1Ok, keys2Ok)
               ELSE <<>>
  IN IF ~writeOk
       THEN [dir |-> dir, drawn |-> id, id |-> id, calls |-> calls,
             out |-> "threw", message |-> message]
     ELSE [dir |-> written, drawn |-> id, id |-> id, calls |-> calls,
           message |-> message,
           out |-> IF ~found THEN "sent"
                   ELSE IF Delivered(calls) THEN "sent in tmux session"
                   ELSE "saved, but failed to send to tmux"]

\* sendMessage(targetAgentId, content, type) called by `a`, as a function
\* of the two directories: the directories after it, the sendKeys calls
\* it made and what it returned ("threw" when writeFile rejected)
sendMessageOn(dir, reg, drawn, nowMs, a, targetAgentId, content, type, writeOk, keys1Ok, keys2Ok) ==
  LET id == randomUUID(drawn)
      message == [id |-> id, from |-> a, to |-> targetAgentId,
                  type |-> type, content |-> content,
                  timestamp |-> ToISOString(nowMs)]
      written == WriteMessage(dir, id, JSONstringify(message), nowMs)
      targetAgent == getAgentInfo(reg, targetAgentId)
      calls == Deliver(targetAgent.session \o ":0", content,
                       keys1Ok, keys2Ok)
  IN IF ~writeOk
       THEN [dir |-> dir, drawn |-> id, id |-> id, calls |-> <<>>,
             out |-> "threw", message |-> message]
     ELSE IF type = "message" /\ targetAgent # Null
                              /\ Truthy(targetAgent, "session")
       THEN [dir |-> written, drawn |-> id, id |-> id, calls |-> calls,
             message |-> message,
             out |-> IF Delivered(calls) THEN "sent in tmux session"
                     ELSE "saved, but failed to send to tmux"]
     ELSE [dir |-> written, drawn |-> id, id |-> id, calls |-> <<>>,
           out |-> "sent", message |-> message]

\* sendMessage(targetAgentId, content, type)
sendMessage(a, targetAgentId, content, type, writeOk, keys1Ok, keys2Ok) ==
  /\ LET r == sendMessageOn(messages, agents, uuids, now, a, targetAgentId,
                            content, type, writeOk, keys1Ok, keys2Ok)
     IN /\ messages' = r.dir
        /\ uuids' = r.drawn
        /\ tmuxCalls' = r.calls
        /\ ret' = [op |-> "sendMessage", by |-> a, to |-> targetAgentId,
                   content |-> content, type |-> type, id |-> r.id,
                   out |-> r.out,
                   wrote |-> IF writeOk THEN r.message ELSE Null]
  /\ UNCHANGED <<clearing, dirs, initializing, running, now, agents, hb>>

\* the delivery location sendCommandToAgent derives from sessionInfo
SessionTarget(sessionInfo) ==
  IF Truthy(sessionInfo, "pane") THEN sessionInfo.pane
  ELSE sessionInfo.session \o ":" \o
         (IF Truthy(sessionInfo, "window") THEN sessionInfo.window ELSE "0")

\* a sendCommandToAgent that looks the target up in the registry first and
\* falls back to sessionInfo
sendCommandToAgentRegistryFirst(a, targetAgentId, command, sessionInfo, writeOk, keys1Ok, keys2Ok) ==
  /\ LET id == randomUUID(uuids)
         message == [id |-> id, from |-> a, to |-> targetAgentId,
                     type |-> "command", content |-> command,
                     timestamp |-> ToISOString(now),
                     sessionInfo |-> sessionInfo]
         written == WriteMessage(messages, id, JSONstringify(message), now)
         targetAgent == getAgentInfo(agents, targetAgentId)
         direct == Deliver(SessionTarget(sessionInfo), command,
                           keys1Ok, keys2Ok)
         calls == Deliver(targetAgent.session \o ":0", command,
                          keys1Ok, keys2Ok)
         result(out) == [op |-> "sendCommandToAgent", by |-> a,
                         to |-> targetAgentId, content |-> command,
                         type |-> "command", id |-> id, out |-> out,
                         wrote |-> IF writeOk THEN message ELSE Null]
     IN /\ uuids' = id
        /\ IF ~writeOk
             THEN /\ messages' = messages
                  /\ tmuxCalls' = <<>>
                  /\ ret' = result("threw")
           ELSE IF targetAgent # Null /\ Truthy(targetAgent, "session")
             THEN /\ messages' = written
                  /\ tmuxCalls' = calls
                  /\ ret' = result(IF Delivered(calls)
                                     THEN "sent in tmux session"
                                     ELSE "queued, but failed to send to tmux")
           ELSE IF sessionInfo # Undefined
             THEN /\ messages' = written
                  /\ tmuxCalls' = direct
                  /\ ret' = result(IF Delivered(direct)
                                     THEN "sent and executed in tmux"
                                     ELSE "queued, but failed to execute in tmux")
           ELSE /\ messages' = written
                /\ tmuxCalls' = <<>>
                /\ ret' = result("queued")
  /\ UNCHANGED <<clearing, dirs, initializing, running, now, agents, hb>>

\* sendCommandToAgent(targetAgentId, command, sessionInfo?)
sendCommandToAgent(a, targetAgentId, command, sessionInfo, writeOk, keys1Ok, keys2Ok) ==
  /\ LET id == randomUUID(uuids)
         message == [id |-> id, from |-> a, to |-> targetAgentId,
                     type |-> "command", content |-> command,
                     timestamp |-> ToISOString(now),
                     sessionInfo |-> sessionInfo]
         written == WriteMessage(messages, id, JSONstringify(message), now)
         targetAgent == getAgentInfo(agents, targetAgentId)
         direct == Deliver(SessionTarget(sessionInfo), command,
                           keys1Ok, keys2Ok)
         calls == Deliver(targetAgent.session \o ":0", command,
                          keys1Ok, keys2Ok)
         result(out) == [op |-> "sendCommandToAgent", by |-> a,
                         to |-> targetAgentId, content |-> command,
                         type |-> "command", id |-> id, out |-> out,
                         wrote |-> IF writeOk THEN message ELSE Null]
     IN /\ uuids' = id
        /\ IF ~writeOk
             THEN /\ messages' = messages
                  /\ tmuxCalls' = <<>>
                  /\ ret' = result("threw")
           ELSE IF sessionInfo # Undefined
             THEN /\ messages' = written
                  /\ tmuxCalls' = direct
                  /\ ret' = result(IF Delivered(direct)
                                     THEN "sent and executed in tmux"
                                     ELSE "queued, but failed to execute in tmux")
           ELSE IF targetAgent # Null /\ Truthy(targetAgent, "session")
             THEN /\ messages' = written
                  /\ tmuxCalls' = calls
                  /\ ret' = result(IF Delivered(calls)
                                     THEN "sent in tmux session"
                                     ELSE "queued, but failed to send to tmux")
           ELSE /\ messages' = written
                /\ tmuxCalls' = <<>>
                /\ ret' = result("queued")
  /\ UNCHANGED <<clearing, dirs, initializing, running, now, agents, hb>>

\* Array.prototype.sort((x, y) => key(x) - key(y)) step: insert m into the
\* sorted s behind every element it does not precede (the sort is stable)
RECURSIVE InsertByKey(_, _, _, _)
InsertByKey(m, km, s, keys) ==
  IF s = <<>> THEN <<m>>
  ELSE IF keys[1] - km > 0 THEN <<m>> \o s
  ELSE <<Head(s)>> \o InsertByKey(m, km, Tail(s), Tail(keys))

\* a sort that leaves the array in enumeration order
SortByTimeUnsorted(s, sign) == s

\* messages.sort((a, b) => sign * (time(a) - time(b)))
RECURSIVE SortByTime(_, _)
SortByTime(s, sign) ==
  IF s = <<>> THEN <<>>
  ELSE LET rest == SortByTime(SubSeq(s, 1, Len(s) - 1), sign)
           last == s[Len(s)]
       IN InsertByKey(last, sign * GetTime(last.timestamp), rest,
                      [i \in DOMAIN rest |->
                         sign * GetTime(rest[i].timestamp)])

\* the loop over `files`: readFile and JSON.parse of each, in order; a
\* file whose JSON.parse threw is ignored by the inner catch
RECURSIVE ReadAll(_, _)
ReadAll(dir, files) ==
  IF files = <<>> THEN <<>>
  ELSE LET message == JSONparse(dir[Head(files)].json)
       IN IF message = Thrown THEN ReadAll(dir, Tail(files))
          ELSE <<message>> \o ReadAll(dir, Tail(files))

\* a getIncomingMessages without the `to` test
getIncomingMessagesOfAll(dir, files, me) ==
  LET any(message) == message # Null
  IN SortByTime(SelectSeq(ReadAll(dir, files), any), 1)

\* getIncomingMessages() called by `me` when readdir returned `files`
getIncomingMessages(dir, files, me) ==
  \* message.to throws on null and the inner catch ignores the file
  LET mine(message) == message # Null /\ message.to = me
  IN SortByTime(SelectSeq(ReadAll(dir, files), mine), 1)

\* a slice that ignores its end
SliceKeepsAll(s, end) == s

\* Array.prototype.slice(0, end)
Slice(s, end) ==
  LET e == IF end < 0 THEN (IF Len(s) + end < 0 THEN 0 ELSE Len(s) + end)
           ELSE IF end > Len(s) THEN Len(s) ELSE end
  IN SubSeq(s, 1, e)

\* an omitted (or empty) targetAgentId: `!targetAgentId` holds
NoTarget == ""

\* getMessageHistory up to its sort: the relevant records, newest first
HistoryMatches(dir, files, me, targetAgentId) ==
  LET isRelevant(message) ==
        \* !targetAgentId decides before any property of message is read;
        \* otherwise message.from throws on null and the file is ignored
        \/ targetAgentId = NoTarget
        \/ /\ message # Null
           /\ \/ message.from = targetAgentId
              \/ message.to = targetAgentId
              \/ message.from = me
              \/ message.to = me
      relevant == SelectSeq(ReadAll(dir, files), isRelevant)
  IN \* sort calls its comparator once there are two elements; b.timestamp
     \* throws on null and the outer catch returns []
     IF Len(relevant) <= 1 THEN relevant
     ELSE IF \E i \in DOMAIN relevant : relevant[i] = Null THEN <<>>
     ELSE SortByTime(relevant, -1)

\* getMessageHistory(targetAgentId?, limit) called by `me`
getMessageHistory(dir, files, me, targetAgentId, limit) ==
  Slice(HistoryMatches(dir, files, me, targetAgentId), limit)

\* an age test that also takes the file written exactly at the cutoff
OldFilesInclusive(dir, nowMs, hoursOld) ==
  LET cutoffTime == nowMs - hoursOld * MsPerHour
  IN {f \in DOMAIN dir : dir[f].mtime <= cutoffTime}

\* the files clearOldMessages(hoursOld) unlinks: mtime < cutoffTime
OldFiles(dir, nowMs, hoursOld) ==
  LET cutoffTime == nowMs - hoursOld * MsPerHour
  IN {f \in DOMAIN dir : dir[f].mtime < cutoffTime}

\* clearOldMessages(hoursOld)
clearOldMessages(a, hoursOld) ==
  LET old == OldFiles(messages, now, hoursOld)
  IN /\ messages' = [f \in DOMAIN messages \ old |-> messages[f]]
     /\ ret' = [op |-> "clearOldMessages", by |-> a, hoursOld |-> hoursOld,
                deletedCount |-> Cardinality(old)]
     /\ tmuxCalls' = <<>>
     /\ UNCHANGED <<clearing, dirs, initializing, running, now, agents, uuids, hb>>

\* clearOldMessages(hoursOld) of a up to the completion of its readdir,
\* which returned `files`; cutoffTime is computed once, here
clearList(a, hoursOld, files) ==
  /\ clearing[a] = Idle
  /\ clearing' = [clearing EXCEPT ![a] =
                    [todo |-> files, hoursOld |-> hoursOld,
                     cutoffTime |-> now - hoursOld * MsPerHour,
                     deletedCount |-> 0, unlinked |-> {},
                     unlinking |-> FALSE]]
  /\ ret' = [op |-> "clearOldMessages listed", by |-> a]
  /\ tmuxCalls' = <<>>
  /\ UNCHANGED <<dirs, initializing, running, now, agents, messages, uuids, hb>>

\* what the call of a returns from its catch block
clearFailed(a) ==
  [op |-> "clearOldMessages", by |-> a, hoursOld |-> clearing[a].hoursOld,
   out |-> "Failed to clear old messages",
   cutoffTime |-> clearing[a].cutoffTime,
   unlinked |-> clearing[a].unlinked]

\* a clearOldMessages whose stat is outside the try block: its rejection
\* leaves the call
clearStatUncaught(a) ==
  /\ clearing[a] # Idle
  /\ clearing[a].todo # <<>>
  /\ ~clearing[a].unlinking
  /\ LET file == Head(clearing[a].todo)
     IN IF file \notin DOMAIN messages
          THEN /\ ret' = [clearFailed(a) EXCEPT !.out = "threw"]
               /\ clearing' = [clearing EXCEPT ![a] = Idle]
        ELSE IF messages[file].mtime < clearing[a].cutoffTime
          THEN /\ ret' = [op |-> "clearOldMessages stat", by |-> a]
               /\ clearing' = [clearing EXCEPT ![a].unlinking = TRUE]
        ELSE /\ ret' = [op |-> "clearOldMessages stat", by |-> a]
             /\ clearing' = [clearing EXCEPT ![a].todo = Tail(@)]
  /\ tmuxCalls' = <<>>
  /\ UNCHANGED <<dirs, initializing, running, now, agents, messages, uuids, hb>>

\* the await stat(filePath) of the next file of the loop and the test of
\* its mtime; stat rejects when the file is gone, and the catch block
\* returns the failure string
clearStat(a) ==
  /\ clearing[a] # Idle
  /\ clearing[a].todo # <<>>
  /\ ~clearing[a].unlinking
  /\ LET file == Head(clearing[a].todo)
     IN IF file \notin DOMAIN messages
          THEN /\ ret' = clearFailed(a)
               /\ clearing' = [clearing EXCEPT ![a] = Idle]
        ELSE IF messages[file].mtime < clearing[a].cutoffTime
          THEN /\ ret' = [op |-> "clearOldMessages stat", by |-> a]
               /\ clearing' = [clearing EXCEPT ![a].unlinking = TRUE]
        ELSE /\ ret' = [op |-> "clearOldMessages stat", by |-> a]
             /\ clearing' = [clearing EXCEPT ![a].todo = Tail(@)]
  /\ tmuxCalls' = <<>>
  /\ UNCHANGED <<dirs, initializing, running, now, agents, messages, uuids, hb>>

\* the await unlink(filePath) of a file found old, and deletedCount++;
\* unlink rejects when the file is gone, and the catch block returns the
\* failure string
clearUnlink(a) ==
  /\ clearing[a] # Idle
  /\ clearing[a].unlinking
  /\ LET file == Head(clearing[a].todo)
     IN IF file \notin DOMAIN messages
          THEN /\ ret' = clearFailed(a)
               /\ clearing' = [clearing EXCEPT ![a] = Idle]
               /\ messages' = messages
        ELSE /\ ret' = [op |-> "clearOldMessages unlink", by |-> a]
             /\ messages' = UnlinkMessage(messages, file)
             /\ clearing' = [clearing EXCEPT
                               ![a].todo = Tail(@),
                               ![a].unlinking = FALSE,
                               ![a].deletedCount = @ + 1,
                               ![a].unlinked = @ \cup {file}]
  /\ tmuxCalls' = <<>>
  /\ UNCHANGED <<dirs, initializing, running, now, agents, uuids, hb>>

\* the loop is through: the call returns its count
clearReturn(a) ==
  /\ clearing[a] # Idle
  /\ clearing[a].todo = <<>>
  /\ ret' = [op |-> "clearOldMessages", by |-> a,
             hoursOld |-> clearing[a].hoursOld,
             deletedCount |-> clearing[a].deletedCount,
             cutoffTime |-> clearing[a].cutoffTime,
             unlinked |-> clearing[a].unlinked]
  /\ clearing' = [clearing EXCEPT ![a] = Idle]
  /\ tmuxCalls' = <<>>
  /\ UNCHANGED <<dirs, initializing, running, now, agents, messages, uuids, hb>>

\* deleteMessage(messageId): unlink, a missing file is ignored
deleteMessage(dir, messageId) ==
  IF messageId \in DOMAIN dir THEN UnlinkMessage(dir, messageId) ELSE dir

\* the text of the acknowledgement of a command
Acknowledgement(content) == "Command executed: " \o content

\* an acknowledgement that is itself sent as a command
sendAcknowledgementAsCommand(dir, reg, drawn, nowMs, a, message, writeOk, keys1Ok, keys2Ok) ==
  sendMessageOn(dir, reg, drawn, nowMs, a, message.from,
                Acknowledgement(message.content), "command",
                writeOk, keys1Ok, keys2Ok)

\* sendMessage(message.from, `Command executed: ...`, 'message') as
\* processIncomingCommands calls it
sendAcknowledgement(dir, reg, drawn, nowMs, a, message, writeOk, keys1Ok, keys2Ok) ==
  sendMessageOn(dir, reg, drawn, nowMs, a, message.from,
                Acknowledgement(message.content), "message",
                writeOk, keys1Ok, keys2Ok)

RECURSIVE processLoop(_, _, _, _, _, _, _)

\* a loop whose try/catch is around the whole loop: the first failure
\* ends it
processLoopAborts(acc, reg, a, todo, failing, keys1Ok, keys2Ok) ==
  IF todo = <<>> THEN acc
  ELSE
    LET message == Head(todo)
        r == sendAcknowledgement(acc.dir, reg, acc.drawn, now, a, message,
                                 message.id \notin failing, keys1Ok, keys2Ok)
        processed == [kind |-> "Processed command", id |-> message.id]
        failed == [kind |-> "Failed to process command", id |-> message.id]
    IN IF message.type # "command"
         THEN processLoop(acc, reg, a, Tail(todo), failing, keys1Ok, keys2Ok)
       ELSE IF r.out = "threw"
         THEN [acc EXCEPT !.drawn = r.drawn,
                          !.results = @ \o <<processed, failed>>]
       ELSE processLoop([dir |-> deleteMessage(r.dir, message.id),
                         drawn |-> r.drawn,
                         results |-> acc.results \o <<processed>>,
                         acks |-> acc.acks \o <<[command |-> message.id,
                                                 ack |-> r.id]>>,
                         calls |-> acc.calls \o r.calls],
                        reg, a, Tail(todo), failing, keys1Ok, keys2Ok)

\* the for loop of processIncomingCommands over the messages `todo`;
\* acc holds the directory, the UUIDs drawn, the results pushed, the
\* acknowledgements written and the sendKeys calls made so far
processLoop(acc, reg, a, todo, failing, keys1Ok, keys2Ok) ==
  IF todo = <<>> THEN acc
  ELSE
    LET message == Head(todo)
        r == sendAcknowledgement(acc.dir, reg, acc.drawn, now, a, message,
                                 message.id \notin failing, keys1Ok, keys2Ok)
        processed == [kind |-> "Processed command", id |-> message.id]
        failed == [kind |-> "Failed to process command", id |-> message.id]
        next ==
          IF message.type # "command" THEN acc
          ELSE IF r.out = "threw"
            THEN [acc EXCEPT !.drawn = r.drawn,
                             !.results = @ \o <<processed, failed>>]
          ELSE [dir |-> deleteMessage(r.dir, message.id),
                drawn |-> r.drawn,
                results |-> acc.results \o <<processed>>,
                acks |-> acc.acks \o <<[command |-> message.id,
                                        ack |-> r.id]>>,
                calls |-> acc.calls \o r.calls]
    IN processLoop(next, reg, a, Tail(todo), failing, keys1Ok, keys2Ok)

\* the command records addressed to `a`
CommandsTo(dir, a) ==
  {f \in DOMAIN dir : dir[f].json.to = a /\ dir[f].json.type = "command"}

\* processIncomingCommands() when readdir returned `files` and the
\* acknowledgement writes of the commands in `failing` are rejected
processIncomingCommands(a, files, failing, keys1Ok, keys2Ok) ==
  /\ LET incoming == getIncomingMessages(messages, files, a)
         start == [dir |-> messages, drawn |-> uuids, results |-> <<>>,
                   acks |-> <<>>, calls |-> <<>>]
         end == processLoop(start, agents, a, incoming, failing,
                            keys1Ok, keys2Ok)
     IN /\ messages' = end.dir
        /\ uuids' = end.drawn
        /\ tmuxCalls' = end.calls
        /\ ret' = [op |-> "processIncomingCommands", by |-> a,
                   results |-> end.results, acks |-> end.acks]
  /\ UNCHANGED <<clearing, dirs, initializing, running, now, agents, hb>>

\* call i of processIncomingCommands() by a, up to the completion of its
\* await getIncomingMessages(), when readdir returned `files`
processList(a, i, files) ==
  /\ running[a][i] = Idle
  /\ running' = [running EXCEPT ![a][i] =
                   [todo |-> getIncomingMessages(messages, files, a),
                    results |-> <<>>, acks |-> <<>>]]
  /\ ret' = [op |-> "processIncomingCommands listed", by |-> a]
  /\ tmuxCalls' = <<>>
  /\ UNCHANGED <<clearing, dirs, initializing, now, agents, messages, uuids, hb>>

\* one iteration of the for loop of call i: for a command, the result is
\* pushed, the acknowledgement sent and the command's file deleted
processNext(a, i, writeOk, keys1Ok, keys2Ok) ==
  /\ running[a][i] # Idle
  /\ running[a][i].todo # <<>>
  /\ LET message == Head(running[a][i].todo)
         start == [dir |-> messages, drawn |-> uuids,
                   results |-> running[a][i].results,
                   acks |-> running[a][i].acks, calls |-> <<>>]
         end == processLoop(start, agents, a, <<message>>,
                            IF writeOk THEN {} ELSE {message.id},
                            keys1Ok, keys2Ok)
     IN /\ messages' = end.dir
        /\ uuids' = end.drawn
        /\ tmuxCalls' = end.calls
        /\ running' = [running EXCEPT ![a][i] =
                         [todo |-> Tail(running[a][i].todo),
                          results |-> end.results, acks |-> end.acks]]
  /\ ret' = [op |-> "processIncomingCommands iterated", by |-> a]
  /\ UNCHANGED <<clearing, dirs, initializing, now, agents, hb>>

\* call i returns its results once its loop is through
processReturn(a, i) ==
  /\ running[a][i] # Idle
  /\ running[a][i].todo = <<>>
  /\ ret' = [op |-> "processIncomingCommands", by |-> a,
             results |-> running[a][i].results,
             acks |-> running[a][i].acks]
  /\ running' = [running EXCEPT ![a][i] = Idle]
  /\ tmuxCalls' = <<>>
  /\ UNCHANGED <<clearing, dirs, initializing, now, agents, messages, uuids, hb>>

(* -------------------------------- clock -------------------------------- *)

\* time passes
Tick(ms, limit) ==
  /\ now + ms <= limit
  /\ now' = now + ms
  /\ ret' = [op |-> "tick"]
  /\ tmuxCalls' = <<>>
  /\ UNCHANGED <<clearing, dirs, initializing, running, agents, messages, uuids, hb>>

TickMinute == Tick(MsPerMinute, MaxMinutes * MsPerMinute)

TickHour == Tick(MsPerHour, MaxHours * MsPerHour)

(* ---------------------------- specifications --------------------------- *)

\* the state after every manager is constructed and its
\* initializeDirectories() has completed: both directories empty
Init ==
  /\ dirs = Directories
  /\ initializing = [a \in Agents |-> "done"]
  /\ now = 0
  /\ agents = <<>>
  /\ messages = <<>>
  /\ uuids = 0
  /\ hb = [a \in Agents |-> Idle]
  /\ running = [a \in Agents |-> [i \in Invocations |-> Idle]]
  /\ clearing = [a \in Agents |-> Idle]
  /\ tmuxCalls = <<>>
  /\ ret = [op |-> "constructor"]

RegisterAgent == \E a \in Agents, s \in Sessions, w \in BOOLEAN :
                   registerAgent(a, s, w)

UnregisterAgent == \E a \in Agents : unregisterAgent(a)

HeartbeatRead == \E a \in Agents : heartbeatRead(a)

HeartbeatWrite == \E a \in Agents : heartbeatWrite(a)

\* what the environment does to one operation: whether writeFile
\* resolves, whether the first sendKeys returns and whether the second one
\* does (the second is only called after the first returned)
Outcomes ==
  {[write |-> FALSE, keys1 |-> TRUE, keys2 |-> TRUE],
   [write |-> TRUE, keys1 |-> FALSE, keys2 |-> TRUE],
   [write |-> TRUE, keys1 |-> TRUE, keys2 |-> FALSE],
   [write |-> TRUE, keys1 |-> TRUE, keys2 |-> TRUE]}

\* a send_message call by one of `senders` to one of `targets`, while
\* fewer than `cap` UUIDs are drawn
SendMessage(senders, targets, cap) ==
  /\ uuids < cap
  /\ \E a \in senders, t \in targets, c \in Contents, o \in Outcomes :
       sendMessage(a, t, c, "message", o.write, o.keys1, o.keys2)

\* a send_command call
SendCommandToAgent(senders, targets, infos, cap) ==
  /\ uuids < cap
  /\ \E a \in senders, t \in targets, c \in Contents,
        si \in infos, o \in Outcomes :
       sendCommandToAgent(a, t, c, si, o.write, o.keys1, o.keys2)

\* a process_commands call
ProcessIncomingCommands(cap) ==
  \E a \in Agents, files \in Readdir(messages), o \in Outcomes :
    /\ o.write
    /\ uuids + Cardinality(CommandsTo(messages, a)) <= cap
    /\ \E failing \in SUBSET CommandsTo(messages, a) :
         processIncomingCommands(a, files, failing, o.keys1, o.keys2)

\* a clear_old_messages call
ClearOldMessages == \E a \in Agents, h \in HoursOld : clearOldMessages(a, h)

\* the presence scenarios: agents register, unregister and refresh their
\* records while minutes pass; no message is sent
PresenceNext ==
  \/ RegisterAgent
  \/ UnregisterAgent
  \/ HeartbeatRead
  \/ HeartbeatWrite
  \/ TickMinute

SpecPresence == Init /\ [][PresenceNext]_vars

\* the registry after a1 registered without a session name and a2 with
\* session "s1", both at time 0
BothRegistered ==
  [a \in Agents |->
     JSONstringify([id |-> a, name |-> a,
                    session |-> IF a = "a1" THEN "" ELSE "s1",
                    lastSeen |-> ToISOString(0), status |-> "online"])]

\* the state after those two registrations
QueueInit ==
  /\ dirs = Directories
  /\ initializing = [a \in Agents |-> "done"]
  /\ now = 0
  /\ agents = BothRegistered
  /\ messages = <<>>
  /\ uuids = 0
  /\ hb = [a \in Agents |-> Idle]
  /\ running = [a \in Agents |-> [i \in Invocations |-> Idle]]
  /\ clearing = [a \in Agents |-> Idle]
  /\ tmuxCalls = <<>>
  /\ ret = [op |-> "registerAgent", by |-> "a2", out |-> "registered"]

\* the queue scenarios: the registered agents send, process and prune
\* while hours pass
QueueNext ==
  \/ SendMessage(Agents, {"a1", Ghost}, MaxMsgs)
  \/ ClearOldMessages
  \/ TickHour

SpecQueue == QueueInit /\ [][QueueNext]_vars

\* the history scenarios: the registered agents send while hours pass
HistoryNext ==
  \/ SendMessage(Agents, {"a1", Ghost}, MaxRecords)
  \/ TickHour

SpecHistory == QueueInit /\ [][HistoryNext]_vars

\* the timer of agent a fires: now is a multiple of the period since the
\* start of the process, and updateHeartbeat() begins
TimerFires ==
  /\ now > 0
  /\ now % HeartbeatPeriod = 0
  /\ \E a \in Agents : heartbeatRead(a) \/ heartbeatCaught(a)

\* every updateHeartbeat() of the current timer tick has completed
BeatsDone ==
  (now > 0 /\ now % HeartbeatPeriod = 0) =>
    \A a \in Agents :
      /\ hb[a] = Idle
      /\ a \in DOMAIN agents => GetTime(agents[a].lastSeen) = now

\* a third of a heartbeat period passes, once the heartbeats that were
\* due have completed
TickBeat ==
  /\ BeatsDone
  /\ Tick(HeartbeatPeriod \div 3, MaxBeats * HeartbeatPeriod)

\* the heartbeat scenarios: agents register and unregister at any time
\* while every process refreshes its record on each tick of its timer
HeartbeatNext ==
  \/ RegisterAgent
  \/ UnregisterAgent
  \/ TimerFires
  \/ HeartbeatWrite
  \/ TickBeat

SpecHeartbeat == Init /\ [][HeartbeatNext]_vars

\* a send_message call of a2 for a1 whose write and delivery succeed
MessageWritten ==
  /\ uuids < MaxWrites
  /\ \E c \in Contents :
       sendMessage("a2", "a1", c, "message", TRUE, TRUE, TRUE)

\* a send_command call of a2 for a1 whose write and delivery succeed
CommandWritten ==
  /\ uuids < MaxWrites
  /\ \E c \in Contents, si \in SessionInfos \cup {Undefined} :
       sendCommandToAgent("a2", "a1", c, si, TRUE, TRUE, TRUE)

\* the round-trip scenarios: the agents register and refresh their
\* records while a2 sends messages and commands to a1 and minutes pass
RoundTripNext ==
  \/ RegisterAgent
  \/ HeartbeatRead
  \/ HeartbeatWrite
  \/ MessageWritten
  \/ CommandWritten
  \/ Tick(MsPerMinute, MaxWrites * MsPerMinute)

SpecRoundTrip == Init /\ [][RoundTripNext]_vars

\* a list_agents call that stores the status it computed in each file
ListAgentsWritesBack ==
  /\ \E a \in Agents, files \in Readdir(agents) :
       ret' = [op |-> "listActiveAgents", by |-> a,
               data |-> listActiveAgents(agents, files, now)]
  /\ agents' = [f \in DOMAIN agents |->
                  Assign(agents[f], "status", StatusOf(agents[f], now))]
  /\ tmuxCalls' = <<>>
  /\ UNCHANGED <<clearing, dirs, initializing, running, now, messages, uuids, hb>>

\* a list_agents call
ListAgents ==
  /\ \E a \in Agents, files \in Readdir(agents) :
       ret' = [op |-> "listActiveAgents", by |-> a,
               data |-> listActiveAgents(agents, files, now)]
  /\ tmuxCalls' = <<>>
  /\ UNCHANGED <<clearing, dirs, initializing, running, now, agents, messages, uuids, hb>>

\* a get_messages call
GetMessages ==
  /\ \E a \in Agents, files \in Readdir(messages) :
       ret' = [op |-> "getIncomingMessages", by |-> a,
               data |-> getIncomingMessages(messages, files, a)]
  /\ tmuxCalls' = <<>>
  /\ UNCHANGED <<clearing, dirs, initializing, running, now, agents, messages, uuids, hb>>

\* a tool call with a name no case of the switch matches: the default
\* case throws
UnknownTool ==
  /\ ret' = [op |-> "callTool", name |-> "no_such_tool", out |-> "threw",
             error |-> "Unknown tool: no_such_tool"]
  /\ tmuxCalls' = <<>>
  /\ UNCHANGED <<clearing, dirs, initializing, running, now, agents, messages, uuids, hb>>

\* a tool call whose arguments its schema rejects: parse throws before
\* the operation is called
InvalidArguments ==
  /\ \E name \in {"register_agent", "send_message", "send_command"} :
       ret' = [op |-> "callTool", name |-> name, out |-> "threw",
               error |-> "invalid arguments"]
  /\ tmuxCalls' = <<>>
  /\ UNCHANGED <<clearing, dirs, initializing, running, now, agents, messages, uuids, hb>>

\* error.message of what an operation threw
ErrorOf(r) == IF "error" \in DOMAIN r THEN r.error ELSE "write failed"

\* the text of the answer to a call that returned
TextOf(r) ==
  IF "out" \in DOMAIN r THEN r.out
  ELSE IF "deletedCount" \in DOMAIN r
    THEN "Deleted " \o ToString(r.deletedCount) \o " old messages"
  ELSE IF "results" \in DOMAIN r THEN r.results
  ELSE r.data

\* a handler without its try/catch: what an operation throws leaves the
\* handler as an exception
ToolAnswerUncaught(r) ==
  IF "out" \in DOMAIN r /\ r.out = "threw"
    THEN [kind |-> "exception", isError |-> TRUE, text |-> ErrorOf(r)]
    ELSE [kind |-> "result", isError |-> FALSE, text |-> TextOf(r)]

\* what the tool-call handler does with the outcome r of the operation
\* it called: it returns the text, or catches what was thrown and
\* returns `Error: ${error.message}` flagged isError
ToolAnswer(r) ==
  IF "out" \in DOMAIN r /\ r.out = "threw"
    THEN [kind |-> "result", isError |-> TRUE,
          text |-> "Error: " \o ErrorOf(r)]
    ELSE [kind |-> "result", isError |-> FALSE, text |-> TextOf(r)]

\* the tool-call scenarios: every agent tool is called, a2 sends to a1,
\* writes fail, and calls come with unknown names and invalid arguments
ToolsNext ==
  \/ RegisterAgent
  \/ UnregisterAgent
  \/ ListAgents
  \/ SendMessage({"a2"}, {"a1"}, MaxWrites)
  \/ SendCommandToAgent({"a2"}, {"a1"}, {Undefined}, MaxWrites)
  \/ GetMessages
  \/ ProcessIncomingCommands(MaxWrites + 1)
  \/ ClearOldMessages
  \/ UnknownTool
  \/ InvalidArguments

SpecTools == Init /\ [][ToolsNext]_vars

\* a process_commands call begins
ProcessList ==
  \E i \in Invocations, files \in Readdir(messages) :
    processList("a1", i, files)

\* a process_commands call in flight goes on by one message, while
\* fewer than `cap` UUIDs are drawn
ProcessNext(cap) ==
  /\ uuids < cap
  /\ \E i \in Invocations, o \in Outcomes :
       processNext("a1", i, o.write, o.keys1, o.keys2)

\* a process_commands call returns
ProcessReturn == \E i \in Invocations : processReturn("a1", i)

\* the overlap scenarios: a2 queues commands for a1 while up to two
\* process_commands calls of a1 are in flight; each command may be
\* acknowledged by each call
OverlapNext ==
  \/ SendCommandToAgent({"a2"}, {"a1"}, {Undefined}, MaxSends)
  \/ ProcessList
  \/ ProcessNext(3 * MaxSends)
  \/ ProcessReturn

SpecOverlap == QueueInit /\ [][OverlapNext]_vars

\* file contents that are not a record: no JSON, "null" and "{}"
ForeignTexts == {Garbage, Null, EmptyObject}

\* something other than registerAgent leaves <Ghost>.json in the agents
\* directory, with a content that is not an agent record
ForeignAgentFile ==
  /\ Ghost \notin DOMAIN agents
  /\ \E text \in ForeignTexts :
       agents' = [f \in DOMAIN agents \cup {Ghost} |->
                    IF f = Ghost THEN text ELSE agents[f]]
  /\ ret' = [op |-> "foreign file"]
  /\ tmuxCalls' = <<>>
  /\ UNCHANGED <<clearing, dirs, initializing, running, now, messages, uuids, hb>>

\* something other than a send leaves a file in the messages directory
\* whose content is no JSON or is "null"
ForeignMessageFile ==
  /\ ForeignFile \notin DOMAIN messages
  /\ \E text \in ForeignTexts \ {EmptyObject} :
       messages' = WriteMessage(messages, ForeignFile, text, now)
  /\ ret' = [op |-> "foreign file"]
  /\ tmuxCalls' = <<>>
  /\ UNCHANGED <<clearing, dirs, initializing, running, now, agents, uuids, hb>>

\* the corrupted-file scenarios: the registered agents send to a1 and to
\* the id of the foreign agent file while foreign files appear and hours
\* pass
ForeignNext ==
  \/ SendMessage(Agents, {"a1", Ghost}, MaxRecords)
  \/ ForeignAgentFile
  \/ ForeignMessageFile
  \/ TickHour

SpecForeign == QueueInit /\ [][ForeignNext]_vars

\* the delivery scenarios: a2 sends to every target (a1, found without a
\* session; a2, found with one; an id not in the registry), with and
\* without sessionInfo, and both agents process their commands; one more
\* UUID is left for an acknowledgement
DeliveryNext ==
  \/ SendMessage({"a2"}, Targets, MaxSends)
  \/ SendCommandToAgent({"a2"}, Targets, SessionInfos \cup {Undefined},
                        MaxSends)
  \/ ProcessIncomingCommands(MaxSends + 1)

SpecDelivery == QueueInit /\ [][DeliveryNext]_vars

\* the state when the constructors have returned: each called
\* initializeDirectories() without awaiting it, no mkdir has completed and
\* ~/.mcp-tmux does not exist yet
StartupInit ==
  /\ dirs = {}
  /\ initializing = [a \in Agents |-> "messages"]
  /\ now = 0
  /\ agents = <<>>
  /\ messages = <<>>
  /\ uuids = 0
  /\ hb = [a \in Agents |-> Idle]
  /\ running = [a \in Agents |-> [i \in Invocations |-> Idle]]
  /\ clearing = [a \in Agents |-> Idle]
  /\ tmuxCalls = <<>>
  /\ ret = [op |-> "constructor"]

\* initializeDirectories() of a, one await mkdir(dir, {recursive: true})
\* at a time: messagesDir, then agentsDir; a rejection ends it in its
\* catch block
initializeDirectories(a, ok) ==
  /\ initializing[a] # "done"
  /\ dirs' = IF ok THEN dirs \cup {initializing[a]} ELSE dirs
  /\ initializing' =
       [initializing EXCEPT ![a] =
          IF ok /\ initializing[a] = "messages" THEN "agents" ELSE "done"]
  /\ ret' = [op |-> "initializeDirectories", by |-> a]
  /\ tmuxCalls' = <<>>
  /\ UNCHANGED <<clearing, now, agents, messages, uuids, hb, running>>

InitializeDirectories ==
  \E a \in Agents, ok \in BOOLEAN : initializeDirectories(a, ok)

\* a register_agent call; writeFile rejects with ENOENT while the agents
\* directory does not exist
RegisterAtStartup ==
  \E a \in Agents, s \in Sessions : registerAgent(a, s, "agents" \in dirs)

\* a send_message call of a2 for a1; writeFile rejects with ENOENT while
\* the messages directory does not exist
SendAtStartup ==
  /\ uuids < MaxSends
  /\ \E c \in Contents, k1 \in BOOLEAN, k2 \in BOOLEAN :
       sendMessage("a2", "a1", c, "message", "messages" \in dirs, k1, k2)

\* a send_command call of a2 for a1
SendCommandAtStartup ==
  /\ uuids < MaxSends
  /\ \E c \in Contents, si \in SessionInfos \cup {Undefined},
        k1 \in BOOLEAN, k2 \in BOOLEAN :
       sendCommandToAgent("a2", "a1", c, si, "messages" \in dirs, k1, k2)

\* the startup scenarios: tool calls arrive while the directories are
\* being created
StartupNext ==
  \/ InitializeDirectories
  \/ RegisterAtStartup
  \/ SendAtStartup
  \/ SendCommandAtStartup

SpecStartup == StartupInit /\ [][StartupNext]_vars

\* a getAgentInfo(agentId) call
GetAgentInfo ==
  /\ \E a \in Agents, agentId \in Targets :
       ret' = [op |-> "getAgentInfo", by |-> a, id |-> agentId,
               data |-> getAgentInfo(agents, agentId)]
  /\ tmuxCalls' = <<>>
  /\ UNCHANGED <<clearing, dirs, initializing, running, now, agents, messages, uuids, hb>>

\* a get_message_history call
GetMessageHistory ==
  /\ \E a \in Agents, files \in Readdir(messages),
        targetAgentId \in {NoTarget, "a2"}, limit \in 1..MaxLimit :
       ret' = [op |-> "getMessageHistory", by |-> a,
               data |-> getMessageHistory(messages, files, a,
                                          targetAgentId, limit)]
  /\ tmuxCalls' = <<>>
  /\ UNCHANGED <<clearing, dirs, initializing, running, now, agents, messages, uuids, hb>>

\* the staleness interval passes at once
TickStale == Tick(StaleMinutes * MsPerMinute, MaxMinutes * MsPerMinute)

\* the read scenarios: the agents register, a2 sends to a1 and the
\* staleness interval passes while every read operation is called
ReadsNext ==
  \/ RegisterAgent
  \/ MessageWritten
  \/ CommandWritten
  \/ TickStale
  \/ ListAgents
  \/ GetAgentInfo
  \/ GetMessages
  \/ GetMessageHistory

SpecReads == Init /\ [][ReadsNext]_vars

\* a process_commands call in which the acknowledgement writes of any of
\* the commands are rejected and every delivery succeeds; every command
\* may be acknowledged
ProcessBatch ==
  \E a \in Agents, files \in Readdir(messages) :
    /\ uuids + Cardinality(CommandsTo(messages, a)) <= 2 * MaxSends
    /\ \E failing \in SUBSET CommandsTo(messages, a) :
         processIncomingCommands(a, files, failing, TRUE, TRUE)

\* the batch scenarios: a2 queues commands for a1 and for itself while
\* hours pass, and the agents process what is queued for them
BatchNext ==
  \/ SendCommandToAgent({"a2"}, Agents, {Undefined}, MaxSends)
  \/ ProcessBatch
  \/ TickHour

SpecBatch == QueueInit /\ [][BatchNext]_vars

\* a clear_old_messages call of a1 begins
ClearList ==
  \E h \in HoursOld, files \in Readdir(messages) : clearList("a1", h, files)

\* the clear_old_messages call of a1 goes on by one await
ClearStep == clearStat("a1") \/ clearUnlink("a1") \/ clearReturn("a1")

\* a clear_old_messages call of a2, from its readdir to its return
ClearByOther == \E h \in HoursOld : clearOldMessages("a2", h)

\* a send_command call of a2 for a1 without sessionInfo whose write
\* succeeds
CommandQueued ==
  /\ uuids < MaxMsgs
  /\ \E c \in Contents :
       sendCommandToAgent("a2", "a1", c, Undefined, TRUE, TRUE, TRUE)

\* a process_commands call of a1 whose acknowledgements are all written
\* and delivered
CommandsProcessed ==
  \E files \in Readdir(messages) :
    /\ uuids + Cardinality(CommandsTo(messages, "a1")) <= MaxMsgs
    /\ processIncomingCommands("a1", files, {}, TRUE, TRUE)

\* the pruning scenarios: a2 queues commands for a1 while hours pass; a1
\* prunes, one await at a time, while a2 prunes too and a1 processes its
\* commands and thereby deletes them
ClearNext ==
  \/ CommandQueued
  \/ CommandsProcessed
  \/ ClearList
  \/ ClearStep
  \/ ClearByOther
  \/ TickHour

SpecClear == QueueInit /\ [][ClearNext]_vars

(* ------------------------------- claims -------------------------------- *)

\* the entries of a listing that describe agent a
EntriesOf(listing, a) == {i \in DOMAIN listing : listing[i].id = a}

\* C5: right after unregisterAgent() deleted the record of a registered
\* agent, getAgentInfo(its id) is null and no listActiveAgents() result,
\* whatever the enumeration order, holds an entry for it.
C5_UnregisteredIsGone ==
  (ret.op = "unregisterAgent" /\ ret.out = "unregistered") =>
    /\ getAgentInfo(agents, ret.by) = Null
    /\ \A files \in Readdir(agents) :
         EntriesOf(listActiveAgents(agents, files, now), ret.by) = {}

\* C5 witness: an agent has unregistered while the other one is still listed
C5_Witness ==
  /\ ret.op = "unregisterAgent"
  /\ ret.out = "unregistered"
  /\ DOMAIN agents # {}

\* C6: every entry listActiveAgents() returns is offline exactly when
\* now - lastSeen is at least 5 minutes (300000 ms), every record is
\* listed, and the listing made right after a registerAgent reports the
\* registered agent online.
C6_OfflineIffFiveMinutes ==
  \A files \in Readdir(agents) :
    LET listing == listActiveAgents(agents, files, now)
    IN /\ Len(listing) = Cardinality(DOMAIN agents)
       /\ \A i \in DOMAIN listing :
            /\ listing[i].id = files[i]
            /\ listing[i].status \in {"online", "offline"}
            /\ listing[i].status = "offline" <=>
                 now - GetTime(agents[files[i]].lastSeen) >= 300000
       /\ (ret.op = "registerAgent" /\ ret.out = "registered") =>
            /\ EntriesOf(listing, ret.by) # {}
            /\ \A i \in EntriesOf(listing, ret.by) :
                 listing[i].status = "online"

\* C6 witness: one record is exactly 5 minutes old and listed offline
\* while another, 4 minutes 59.999 seconds or younger, is listed online
C6_Witness ==
  \E a, b \in DOMAIN agents :
    /\ now - GetTime(agents[a].lastSeen) = 300000
    /\ now - GetTime(agents[b].lastSeen) < 300000
    /\ \E files \in Readdir(agents) :
         LET listing == listActiveAgents(agents, files, now)
         IN /\ \A i \in EntriesOf(listing, a) : listing[i].status = "offline"
            /\ \A i \in EntriesOf(listing, b) : listing[i].status = "online"

\* whether a sequence of records is ordered by timestamp: ascending for
\* sign 1, descending for sign -1
OrderedByTime(r, sign) ==
  \A i, j \in DOMAIN r :
    i < j => sign * GetTime(r[i].timestamp) <= sign * GetTime(r[j].timestamp)

\* the records of the message files addressed to a
AddressedTo(dir, a) ==
  {JSONparse(dir[f].json) : f \in {g \in DOMAIN dir : dir[g].json.to = a}}

\* the elements of a sequence
Range(r) == {r[i] : i \in DOMAIN r}

\* C2: getIncomingMessages() returns the caller's messages oldest first,
\* each once, whatever order readdir enumerated the files in; three
\* messages with timestamps t1 < t2 < t3 come back as [t1, t2, t3].
C2_IncomingAscending ==
  \A a \in Agents : \A files \in Readdir(messages) :
    LET r == getIncomingMessages(messages, files, a)
    IN /\ OrderedByTime(r, 1)
       /\ Range(r) = AddressedTo(messages, a)
       /\ Len(r) = Cardinality(AddressedTo(messages, a))

\* C2 witness: three messages to a1 with strictly increasing timestamps,
\* enumerated newest first and returned oldest first
C2_Witness ==
  /\ DOMAIN messages = {1, 2, 3}
  /\ \A f \in DOMAIN messages : messages[f].json.to = "a1"
  /\ GetTime(messages[1].json.timestamp) < GetTime(messages[2].json.timestamp)
  /\ GetTime(messages[2].json.timestamp) < GetTime(messages[3].json.timestamp)
  /\ getIncomingMessages(messages, <<3, 2, 1>>, "a1")
       = <<messages[1].json, messages[2].json, messages[3].json>>

\* C3: getIncomingMessages() returns only records whose `to` is the
\* caller's id; a send to an id no agent holds returns normally and
\* leaves its record in the store, and no agent's getIncomingMessages()
\* ever returns a record addressed to such an id.
C3_OnlyOwnMessages ==
  /\ \A a \in Agents : \A files \in Readdir(messages) :
       \A m \in Range(getIncomingMessages(messages, files, a)) :
         m.to = a /\ m.to # Ghost
  /\ (ret.op = "sendMessage" /\ ret.to = Ghost /\ ret.out # "threw") =>
       /\ ret.id \in DOMAIN messages
       /\ messages[ret.id].json.to = Ghost

\* C3 witness: a message to the unheld id has just been stored next to a
\* message that a1 does receive
C3_Witness ==
  /\ ret.op = "sendMessage"
  /\ ret.to = Ghost
  /\ ret.out = "sent"
  /\ ret.id \in DOMAIN messages
  /\ \E files \in Readdir(messages) :
       getIncomingMessages(messages, files, "a1") # <<>>

\* C7: clearOldMessages(H) removes exactly the files whose modification
\* time is below now - H hours (H * 3600000 ms), leaves every other file
\* as it was and reports how many it removed; called again at once with
\* the same H, it removes nothing and reports 0.
C7_ClearsExactlyTheOld ==
  [][ret'.op = "clearOldMessages" =>
       LET cutoff == now - ret'.hoursOld * 3600000
           older == {f \in DOMAIN messages : messages[f].mtime < cutoff}
       IN /\ DOMAIN messages' = DOMAIN messages \ older
          /\ \A f \in DOMAIN messages' : messages'[f] = messages[f]
          /\ ret'.deletedCount = Cardinality(older)
          /\ (ret.op = "clearOldMessages" /\ ret.hoursOld = ret'.hoursOld) =>
               /\ messages' = messages
               /\ ret'.deletedCount = 0
    ]_vars

\* C7 witness: a call removed a file while a file written exactly at the
\* cutoff and a younger one stayed
C7_Witness ==
  /\ ret.op = "clearOldMessages"
  /\ ret.deletedCount > 0
  /\ \E f, g \in DOMAIN messages :
       /\ messages[f].mtime = now - ret.hoursOld * 3600000
       /\ messages[g].mtime > now - ret.hoursOld * 3600000

\* the targetAgentId values of a getMessageHistory call
HistoryTargets == Targets \cup {NoTarget}

\* C8: every record getMessageHistory(targetId?, limit) returns has the
\* caller as sender or recipient, or, when targetId is given, targetId as
\* sender or recipient.
C8_HistoryOnlyOwnOrTarget ==
  \A files \in Readdir(messages) : \A a \in Agents, t \in HistoryTargets :
    \A m \in Range(getMessageHistory(messages, files, a, t, MaxRecords)) :
      \/ m.from = a
      \/ m.to = a
      \/ t # NoTarget /\ (m.from = t \/ m.to = t)

\* C9: getMessageHistory(targetId, N) returns at most N records, newest
\* first, and when more than N records match it returns N of them, none
\* older than a matching record it left out.
C9_HistoryLimitedNewestFirst ==
  \A files \in Readdir(messages) : \A a \in Agents, t \in HistoryTargets :
    LET all == HistoryMatches(messages, files, a, t)
    IN \A n \in 0..MaxLimit :
         LET r == getMessageHistory(messages, files, a, t, n)
             left == Range(all) \ Range(r)
         IN /\ Len(r) <= n
            /\ OrderedByTime(r, -1)
            /\ Range(r) \subseteq Range(all)
            /\ Len(all) > n =>
                 /\ Len(r) = n
                 /\ \A m \in Range(r), o \in left :
                      GetTime(o.timestamp) <= GetTime(m.timestamp)

\* C9 witness: two records written an hour apart match a1's history;
\* limit 2 returns both, newest first, and limit 1 only the newer one
C9_Witness ==
  /\ DOMAIN messages = {1, 2}
  /\ GetTime(messages[1].json.timestamp) < GetTime(messages[2].json.timestamp)
  /\ getMessageHistory(messages, <<1, 2>>, "a1", "a1", 2)
       = <<messages[2].json, messages[1].json>>
  /\ getMessageHistory(messages, <<1, 2>>, "a1", "a1", 1)
       = <<messages[2].json>>

\* the steps that are a send or a sendCommand
SendOps == {"sendMessage", "sendCommandToAgent"}

\* whether the file of the send that ret describes holds its record
RequestStored ==
  /\ ret.id \in DOMAIN messages
  /\ messages[ret.id].mtime = now
  /\ LET m == JSONparse(messages[ret.id].json)
     IN /\ m.id = ret.id
        /\ m.from = ret.by
        /\ m.to = ret.to
        /\ m.type = ret.type
        /\ m.content = ret.content
        /\ GetTime(m.timestamp) = now

\* C1: when a send returns, the store holds a record with the sender as
\* from, the target as to, the requested type and the given content; and
\* every record in the store addressed to an agent is among what that
\* agent's getIncomingMessages() returns, in any enumeration order.
C1_SentIsStoredAndRetrievable ==
  /\ (ret.op \in SendOps /\ ret.out # "threw") => RequestStored
  /\ \A files \in Readdir(messages) : \A a \in Agents :
       AddressedTo(messages, a)
         \subseteq Range(getIncomingMessages(messages, files, a))

\* C1 witness: a message to a2 was stored although its injection into
\* a2's terminal failed, and a2 retrieves it
C1_Witness ==
  /\ ret.op = "sendMessage"
  /\ ret.to = "a2"
  /\ ret.out = "saved, but failed to send to tmux"
  /\ RequestStored
  /\ \E files \in Readdir(messages) :
       messages[ret.id].json
         \in Range(getIncomingMessages(messages, files, "a2"))

\* C4: a processIncomingCommands() step removes every command record it
\* processed, adds exactly one record per processed command, of type
\* response and addressed to that command's sender, and leaves the
\* records of type message addressed to the caller as they were.
C4_ProcessDeletesAndAnswers ==
  [][ret'.op = "processIncomingCommands" =>
       LET created == DOMAIN messages' \ DOMAIN messages
           answers(c) == {f \in created :
                            /\ messages'[f].json.to = messages[c].json.from
                            /\ messages'[f].json.type = "response"
                            /\ \E i \in DOMAIN ret'.acks :
                                 ret'.acks[i] = [command |-> c, ack |-> f]}
       IN /\ \A i \in DOMAIN ret'.acks :
               /\ ret'.acks[i].command \notin DOMAIN messages'
               /\ Cardinality(answers(ret'.acks[i].command)) = 1
          /\ Cardinality(created) = Len(ret'.acks)
          /\ \A f \in DOMAIN messages :
               (messages[f].json.to = ret'.by
                  /\ messages[f].json.type = "message") =>
                 /\ f \in DOMAIN messages'
                 /\ messages'[f] = messages[f]
    ]_vars

\* the confirmation strings of a send whose live delivery failed
DeliveryFailed ==
  {"saved, but failed to send to tmux",
   "queued, but failed to execute in tmux",
   "queued, but failed to send to tmux"}

\* C10: a send or sendCommand that threw made no sendKeys call and left
\* no record; one that made a sendKeys call had written its record
\* first; one whose sendKeys call failed, or whose target is not in the
\* registry, still returned a confirmation string, and its record is in
\* the store as written.
C10_PersistBeforeDelivery ==
  ret.op \in SendOps =>
    /\ ret.out = "threw" => tmuxCalls = <<>> /\ ret.id \notin DOMAIN messages
    /\ tmuxCalls # <<>> => ret.out # "threw" /\ RequestStored
    /\ ret.out # "threw" => RequestStored
    /\ ~Delivered(tmuxCalls) => ret.out \in DeliveryFailed /\ RequestStored
    /\ ret.out \in DeliveryFailed => ~Delivered(tmuxCalls)
    /\ (getAgentInfo(agents, ret.to) = Null /\ tmuxCalls = <<>>
          /\ ret.out # "threw") =>
         ret.out \in {"sent", "queued"} /\ RequestStored

\* C10 witness: the Enter keystroke of a command's delivery failed after
\* its text was sent, and the command's record is stored
C10_Witness ==
  /\ ret.op = "sendCommandToAgent"
  /\ Len(tmuxCalls) = 2
  /\ tmuxCalls[1].ok
  /\ ~tmuxCalls[2].ok
  /\ ret.out \in DeliveryFailed
  /\ RequestStored

\* C11: a sendCommand with sessionInfo makes its sendKeys calls at the
\* pane of sessionInfo, or without one at session:window with window 0 by
\* default, and none at the registry's session of the target, whether the
\* target is registered or not and whether the calls succeed; without
\* sessionInfo the calls go to <registry session>:0, and there are none
\* when the registry has no session for the target.
C11_SessionInfoTakesPrecedence ==
  (ret.op = "sendCommandToAgent" /\ ret.out # "threw") =>
    LET m == JSONparse(messages[ret.id].json)
        recorded == getAgentInfo(agents, ret.to)
        targets == {tmuxCalls[i].target : i \in DOMAIN tmuxCalls}
    IN IF "sessionInfo" \in DOMAIN m
         THEN /\ tmuxCalls # <<>>
              /\ targets =
                   {IF "pane" \in DOMAIN m.sessionInfo
                      THEN m.sessionInfo.pane
                    ELSE IF "window" \in DOMAIN m.sessionInfo
                      THEN m.sessionInfo.session \o ":"
                             \o m.sessionInfo.window
                    ELSE m.sessionInfo.session \o ":0"}
              /\ recorded # Null => recorded.session \o ":0" \notin targets
              /\ ret.out \in {"sent and executed in tmux",
                              "queued, but failed to execute in tmux"}
       ELSE IF recorded # Null /\ recorded.session # ""
         THEN tmuxCalls # <<>> /\ targets = {recorded.session \o ":0"}
       ELSE tmuxCalls = <<>>

\* C11 witness: a command for a2, registered with session s1, was sent
\* with a pane in sessionInfo; the delivery went to the pane and failed
C11_Witness ==
  /\ ret.op = "sendCommandToAgent"
  /\ ret.to = "a2"
  /\ ret.out = "queued, but failed to execute in tmux"
  /\ "sessionInfo" \in DOMAIN messages[ret.id].json
  /\ tmuxCalls # <<>>
  /\ \A i \in DOMAIN tmuxCalls : tmuxCalls[i].target = "%1"

\* the files of the agents directory that hold an agent record
AgentRecordFiles ==
  {f \in DOMAIN agents :
     DOMAIN agents[f] = {"id", "name", "session", "lastSeen", "status"}}

\* the records of the messages directory: the contents with every
\* field of a message record
MessageRecords ==
  {messages[f].json : f \in
     {g \in DOMAIN messages :
        {"id", "from", "to", "type", "content", "timestamp"}
          \subseteq DOMAIN messages[g].json}}

\* C12: whatever the directories hold and in whatever order they are
\* enumerated, listActiveAgents() returns one entry for each file that
\* holds an agent record and none for any other file,
\* getIncomingMessages() returns exactly the message records addressed
\* to the caller, and getMessageHistory() returns exactly the message
\* records its filter selects (all of them when no target is given).
C12_ListingsSkipTheUnreadable ==
  /\ \A files \in Readdir(agents) :
       LET listing == listActiveAgents(agents, files, now)
       IN /\ Len(listing) = Cardinality(AgentRecordFiles)
          /\ \A i \in DOMAIN listing :
               \E f \in AgentRecordFiles :
                 listing[i] = Assign(agents[f], "status", listing[i].status)
  /\ \A files \in Readdir(messages) : \A a \in Agents :
       /\ Range(getIncomingMessages(messages, files, a))
            = {m \in MessageRecords : m.to = a}
       /\ \A t \in HistoryTargets :
            Range(getMessageHistory(messages, files, a, t, MaxRecords + 1))
              = {m \in MessageRecords :
                   \/ t = NoTarget
                   \/ m.from = t \/ m.to = t \/ m.from = a \/ m.to = a}

C14_ListsOnlyOnline ==
  \A files \in Readdir(agents) :
    LET listing == listActiveAgents(agents, files, now)
    IN \A i \in DOMAIN listing :
         /\ listing[i].status = "online"
         /\ now - GetTime(agents[listing[i].id].lastSeen) < 300000

\* C15: with the timer firing every 30 seconds and each updateHeartbeat()
\* completing, the record of a registered agent is never 5 minutes old:
\* now - lastSeen stays below 300000 ms and every listActiveAgents() call
\* reports the agent online.
C15_HeartbeatKeepsOnline ==
  \A a \in DOMAIN agents :
    /\ now - GetTime(agents[a].lastSeen) < 300000
    /\ \A files \in Readdir(agents) :
         LET listing == listActiveAgents(agents, files, now)
         IN /\ EntriesOf(listing, a) # {}
            /\ \A i \in EntriesOf(listing, a) : listing[i].status = "online"

\* C15 witness: more than 5 minutes after the start both agents are
\* registered and the heartbeat of this tick has just been written
C15_Witness ==
  /\ now > 300000
  /\ DOMAIN agents = Agents
  /\ ret.op = "updateHeartbeat"
  /\ ret.out = "written"
  /\ GetTime(agents[ret.by].lastSeen) = now

\* C16: an unregisterAgent() called while the caller's record is absent
\* returns its failure string, does not raise and leaves the agents and
\* messages directories as they were; called while the record is present
\* it returns its success string.
C16_UnregisterAbsentFails ==
  [][ret'.op = "unregisterAgent" =>
       IF ret'.by \in DOMAIN agents
         THEN ret'.out = "unregistered"
         ELSE /\ ret'.out = "failed"
              /\ agents' = agents
              /\ messages' = messages
    ]_vars

\* C16 witness: an agent unregistered while its record was absent, the
\* call reported failure and the other agent's record stayed
C16_Witness ==
  /\ ret.op = "unregisterAgent"
  /\ ret.out = "failed"
  /\ ret.by \notin DOMAIN agents
  /\ DOMAIN agents # {}

\* whether reading every field of the value read back gives what reading
\* it of the written object gives (a sessionInfo that was undefined when
\* written reads as undefined, its key being absent)
SameFields(written, read) ==
  \A k \in DOMAIN written \cup DOMAIN read :
    IF k = "sessionInfo" /\ k \in DOMAIN written /\ written[k] = Undefined
      THEN k \notin DOMAIN read
      ELSE /\ k \in DOMAIN written
           /\ k \in DOMAIN read
           /\ read[k] = written[k]

ThrowingOps == {"registerAgent", "sendMessage", "sendCommandToAgent"}

\* the operations that never throw
QuietOps ==
  {"unregisterAgent", "listActiveAgents", "getIncomingMessages",
   "processIncomingCommands", "clearOldMessages"}

\* C18: the handler answers every call with a result, never with an
\* exception: an operation that threw (a write failure in register or
\* send, an unknown tool name, invalid arguments) is answered with the
\* text 'Error: <message>' flagged isError, and unregister, list,
\* get_messages, process_commands and clear_old_messages always return
\* their data or outcome string, process_commands also when the write of
\* an acknowledgement failed.
C18_NoExceptionEscapes ==
  ret.op \in ThrowingOps \cup QuietOps \cup {"callTool"} =>
  LET answer == ToolAnswer(ret)
  IN /\ answer.kind = "result"
     /\ answer.isError <=>
          /\ ret.op \in ThrowingOps \cup {"callTool"}
          /\ ret.out = "threw"
     /\ answer.isError => answer.text = "Error: " \o ErrorOf(ret)
     /\ (ret.op = "registerAgent" /\ ~answer.isError) =>
          ret.by \in DOMAIN agents
     /\ (ret.op \in SendOps /\ ~answer.isError) => ret.id \in DOMAIN messages
     /\ ret.op = "processIncomingCommands" =>
          /\ ~answer.isError
          /\ Len(ret.results) >= Len(ret.acks)

\* C18 witness: process_commands returned its result lines although the
\* write of an acknowledgement was rejected
C18_Witness ==
  /\ ret.op = "processIncomingCommands"
  /\ \E i \in DOMAIN ret.results :
       ret.results[i].kind = "Failed to process command"
  /\ ~ToolAnswer(ret).isError

\* C19: an agent record that is absent, as after a successful
\* unregisterAgent(), comes back only by a registerAgent() of that agent,
\* also when an updateHeartbeat() of the agent had read the record before
\* the unregistration and writes afterwards.
C19_UnregisteredStaysAbsent ==
  [][\A a \in DOMAIN agents' \ DOMAIN agents :
       ret'.op = "registerAgent" /\ ret'.by = a
    ]_vars

\* the places, over the calls of a in flight, where sequence `field`
\* names command c
Mentions(a, field, c) ==
  {<<i, j>> \in Invocations \X (1..(3 * MaxSends)) :
     /\ running[a][i] # Idle
     /\ j \in DOMAIN running[a][i][field]
     /\ IF field = "acks" THEN running[a][i].acks[j].command = c
        ELSE /\ running[a][i].results[j].id = c
             /\ running[a][i].results[j].kind = "Processed command"}

\* C20: over the processIncomingCommands() calls of one agent that are in
\* flight together, each command is acknowledged at most once and has at
\* most one 'Processed command' result.
C20_OverlapProcessesOnce ==
  \A a \in Agents : \A c \in 1..uuids :
    /\ Cardinality(Mentions(a, "acks", c)) <= 1
    /\ Cardinality(Mentions(a, "results", c)) <= 1

\* C21: a registerAgent, send or sendCommand issued after the manager is
\* constructed finds the directory it writes its record into created.
C21_DirectoriesExistBeforeWrite ==
  /\ ret.op = "registerAgent" => "agents" \in dirs
  /\ ret.op \in SendOps => "messages" \in dirs

\* the confirmation strings of a send whose live delivery succeeded
DeliveredLive ==
  {"sent in tmux session", "sent and executed in tmux"}

\* C22: the sendKeys calls of one send or sendCommand are none, or the
\* text without Enter, followed, only when that call returned and then
\* after 500 ms, by the empty text with Enter at the same target; there is
\* no third call, and the send reports a live delivery exactly when both
\* calls returned.
C22_DeliveryIsTextWaitEnter ==
  ret.op \in SendOps =>
    /\ Len(tmuxCalls) <= 2
    /\ tmuxCalls # <<>> =>
         /\ tmuxCalls[1].keys = ret.content
         /\ ~tmuxCalls[1].enter
         /\ tmuxCalls[1].waited = 0
         /\ Len(tmuxCalls) = 2 <=> tmuxCalls[1].ok
    /\ Len(tmuxCalls) = 2 =>
         /\ tmuxCalls[2].keys = ""
         /\ tmuxCalls[2].enter
         /\ tmuxCalls[2].target = tmuxCalls[1].target
         /\ tmuxCalls[2].waited = 500
    /\ ret.out \in DeliveredLive <=>
         (Len(tmuxCalls) = 2 /\ tmuxCalls[2].ok)

\* C22 witness: a message for a2, registered with session s1, was
\* delivered live: the text, then Enter, both at s1:0
C22_Witness ==
  /\ ret.op = "sendMessage"
  /\ ret.out = "sent in tmux session"
  /\ Len(tmuxCalls) = 2
  /\ tmuxCalls[1].target = "s1:0"
  /\ tmuxCalls[1].keys = "ls"
  /\ tmuxCalls[2].enter

\* C23: the status in the record getAgentInfo(id) returns is the status
\* listActiveAgents computes at that instant: online iff the record's
\* lastSeen is less than five minutes old.
C23_GetAgentInfoRecomputesStatus ==
  (ret.op = "getAgentInfo" /\ ret.data # Null) =>
    /\ ret.data.status = StatusOf(ret.data, now)
    /\ \A files \in Readdir(agents) :
         \A i \in EntriesOf(listActiveAgents(agents, files, now), ret.id) :
           listActiveAgents(agents, files, now)[i].status = ret.data.status

C25_MessageRecordsWriteOnce ==
  [][/\ \A f \in DOMAIN messages : f <= uuids
     /\ uuids' >= uuids
     /\ \A f \in DOMAIN messages' \ DOMAIN messages :
          /\ f > uuids
          /\ f <= uuids'
          /\ messages'[f].json.id = f
     /\ \A f \in DOMAIN messages \cap DOMAIN messages' :
          messages'[f] = messages[f]
    ]_vars

\* C25 witness: a processIncomingCommands() deleted the command it
\* handled and left the acknowledgement it created, under a later id,
\* next to an older record
C25_Witness ==
  /\ ret.op = "processIncomingCommands"
  /\ ret.acks # <<>>
  /\ ret.acks[1].command \notin DOMAIN messages
  /\ ret.acks[1].ack \in DOMAIN messages
  /\ ret.acks[1].ack > ret.acks[1].command
  /\ \E f \in DOMAIN messages : f < ret.acks[1].command

\* C26: the write of an updateHeartbeat() leaves the id, name and session
\* of the caller's record as the file held them just before the write,
\* that is as the most recent registerAgent() wrote them, also when that
\* registerAgent() ran after the heartbeat had read the record.
C26_HeartbeatKeepsIdentity ==
  [][(/\ ret'.op = "updateHeartbeat"
      /\ ret'.out = "written"
      /\ ret'.by \in DOMAIN agents) =>
       /\ agents'[ret'.by].id = agents[ret'.by].id
       /\ agents'[ret'.by].name = agents[ret'.by].name
       /\ agents'[ret'.by].session = agents[ret'.by].session
    ]_vars

\* the ids of the result entries of the given kind, in result order
ResultIds(results, kind) ==
  LET of(r) == r.kind = kind
      entries == SelectSeq(results, of)
  IN [i \in DOMAIN entries |-> entries[i].id]

\* C27: a processIncomingCommands() returns results; every command that
\* was queued for the caller has its 'Processed command' entry, in
\* ascending order of timestamp, whether or not an earlier command
\* failed; a command that failed has a 'Failed to process command' entry
\* right behind it and stays queued; every other command is acknowledged
\* to its sender and deleted.
C27_FailureDoesNotAbort ==
  [][ret'.op = "processIncomingCommands" =>
       LET a == ret'.by
           commands == CommandsTo(messages, a)
           done == ResultIds(ret'.results, "Processed command")
           failed == ResultIds(ret'.results, "Failed to process command")
       IN /\ Range(done) = commands
          /\ Len(done) = Cardinality(commands)
          /\ \A i, j \in DOMAIN done :
               i < j => GetTime(messages[done[i]].json.timestamp)
                          <= GetTime(messages[done[j]].json.timestamp)
          /\ \A i \in DOMAIN ret'.results :
               ret'.results[i].kind = "Failed to process command" =>
                 /\ i > 1
                 /\ ret'.results[i - 1] =
                      [kind |-> "Processed command",
                       id |-> ret'.results[i].id]
          /\ \A c \in commands :
               IF c \in Range(failed)
                 THEN /\ c \in DOMAIN messages'
                      /\ \A k \in DOMAIN ret'.acks : ret'.acks[k].command # c
                 ELSE /\ c \notin DOMAIN messages'
                      /\ \E k \in DOMAIN ret'.acks :
                           /\ ret'.acks[k].command = c
                           /\ ret'.acks[k].ack \in DOMAIN messages'
                           /\ messages'[ret'.acks[k].ack].json.to
                                = messages[c].json.from
    ]_vars

\* C27 witness: of two commands queued for a1 an hour apart the older one
\* failed and stays queued, and the later one was processed,
\* acknowledged and deleted
C27_Witness ==
  /\ ret.op = "processIncomingCommands"
  /\ ret.by = "a1"
  /\ Len(ret.results) = 3
  /\ ret.results[2].kind = "Failed to process command"
  /\ ret.results[3].kind = "Processed command"
  /\ ret.results[2].id \in DOMAIN messages
  /\ GetTime(messages[ret.results[2].id].json.timestamp) < now
  /\ ret.results[3].id \notin DOMAIN messages
  /\ Len(ret.acks) = 1
  /\ ret.acks[1].command = ret.results[3].id
  /\ ret.acks[1].ack \in DOMAIN messages

\* the read operations
ReadOps ==
  {"getIncomingMessages", "getMessageHistory", "listActiveAgents",
   "getAgentInfo"}

\* C28: a getIncomingMessages, getMessageHistory, listActiveAgents or
\* getAgentInfo call leaves the agents and the messages directory as they
\* were: no file appears, changes or disappears, and a record that
\* listActiveAgents reports offline keeps the status its file stored.
C28_ReadsChangeNothing ==
  [][ret'.op \in ReadOps =>
       /\ DOMAIN agents' = DOMAIN agents
       /\ DOMAIN messages' = DOMAIN messages
       /\ \A f \in DOMAIN agents : agents'[f] = agents[f]
       /\ \A f \in DOMAIN messages : messages'[f] = messages[f]
       /\ ret'.op = "listActiveAgents" =>
            \A i \in DOMAIN ret'.data :
              agents'[ret'.data[i].id].status
                = agents[ret'.data[i].id].status
    ]_vars

\* C28 witness: a listing reports an agent offline whose file stores the
\* status online, while a record is queued
C28_Witness ==
  /\ ret.op = "listActiveAgents"
  /\ \E i \in DOMAIN ret.data :
       /\ ret.data[i].status = "offline"
       /\ agents[ret.data[i].id].status = "online"
  /\ DOMAIN messages # {}

\* C29: no record a processIncomingCommands() creates is a command; when
\* it has returned, no command addressed to the caller is left; and a
\* run that finds no command addressed to the caller returns an empty
\* result and creates no record.
C29_ProcessingQuiesces ==
  [][ret'.op = "processIncomingCommands" =>
       /\ \A f \in DOMAIN messages' \ DOMAIN messages :
            messages'[f].json.type # "command"
       /\ CommandsTo(messages', ret'.by) = {}
       /\ CommandsTo(messages, ret'.by) = {} =>
            /\ ret'.results = <<>>
            /\ messages' = messages
            /\ uuids' = uuids
    ]_vars

\* C29 as amended: no record a processIncomingCommands() creates is a
\* command; when it has returned, the commands addressed to the caller
\* that are left are exactly those whose acknowledgement could not be
\* written, so none is left when every acknowledgement was written; and
\* a run that finds no command addressed to the caller returns an empty
\* result and creates no record.
C29_ProcessingQuiescesUnlessAckFails ==
  [][ret'.op = "processIncomingCommands" =>
       /\ \A f \in DOMAIN messages' \ DOMAIN messages :
            messages'[f].json.type # "command"
       /\ CommandsTo(messages', ret'.by) =
            Range(ResultIds(ret'.results, "Failed to process command"))
       /\ \A a \in Agents \ {ret'.by} :
            CommandsTo(messages', a) = CommandsTo(messages, a)
       /\ CommandsTo(messages, ret'.by) = {} =>
            /\ ret'.results = <<>>
            /\ messages' = messages
            /\ uuids' = uuids
    ]_vars

\* C29 witness: a2 had sent a command to itself and acknowledged it to
\* itself; its next run found the acknowledgement, returned an empty
\* result and left no command
C29_Witness ==
  /\ ret.op = "processIncomingCommands"
  /\ ret.by = "a2"
  /\ ret.results = <<>>
  /\ CommandsTo(messages, "a2") = {}
  /\ \E f \in DOMAIN messages :
       /\ messages[f].json.from = "a2"
       /\ messages[f].json.to = "a2"
       /\ messages[f].json.type = "message"
       /\ messages[f].json.content = Acknowledgement("ls")

\* the steps of a clearOldMessages call that goes one await at a time
ClearSteps ==
  {"clearOldMessages", "clearOldMessages stat", "clearOldMessages unlink"}

\* C30: in every step of a clearOldMessages() call in flight, when the
\* file it is at has disappeared since the enumeration the call ends by
\* returning the 'Failed to clear old messages' string and deletes
\* nothing in that step; it never raises; every file a step deletes is
\* older than the cutoff of the call; and the files the call has deleted
\* are absent while it runs and when it returns.
C30_ClearSurvivesConcurrentDeletion ==
  [][\A a \in Agents :
       (clearing[a] # Idle /\ ret'.op \in ClearSteps /\ ret'.by = a) =>
         /\ clearing[a].unlinked \cap DOMAIN messages = {}
         /\ (/\ clearing[a].todo # <<>>
             /\ Head(clearing[a].todo) \notin DOMAIN messages) =>
              /\ ret'.op = "clearOldMessages"
              /\ "out" \in DOMAIN ret'
              /\ ret'.out = "Failed to clear old messages"
              /\ clearing'[a] = Idle
              /\ messages' = messages
         /\ \A f \in DOMAIN messages \ DOMAIN messages' :
              messages[f].mtime < clearing[a].cutoffTime
         /\ \A f \in DOMAIN messages \cap DOMAIN messages' :
              messages'[f] = messages[f]
         /\ ret'.op = "clearOldMessages" =>
              /\ "out" \in DOMAIN ret' =>
                   ret'.out = "Failed to clear old messages"
              /\ ret'.unlinked \cap DOMAIN messages' = {}
              /\ ret'.unlinked = clearing[a].unlinked
    ]_vars

\* C30 witness: a1's call had deleted a file when the next file of its
\* enumeration was gone; it returned the failure string, what it deleted
\* is absent and a record not older than its cutoff is still there
C30_Witness ==
  /\ ret.op = "clearOldMessages"
  /\ ret.by = "a1"
  /\ "out" \in DOMAIN ret
  /\ ret.out = "Failed to clear old messages"
  /\ ret.unlinked # {}
  /\ ret.unlinked \cap DOMAIN messages = {}
  /\ \E f \in DOMAIN messages : messages[f].mtime >= ret.cutoffTime

====
